---- MODULE Spec2Model ----
(***************************************************************************)
(* Tiny Glade JSON import / export add-on (src/operators.py, src/utils.py). *)
(*                                                                         *)
(* The state is the part of the host scene the two operators read and      *)
(* write (bpy.data.meshes, the objects linked to the collection, the       *)
(* active object), the JSON file at the operator's filepath, and the log   *)
(* of the operator calls made so far: what each returned and reported.     *)
(* The export options are an input of each export call.                    *)
(* Python indices are 0-based; sequences here are 1-based, so element i of *)
(* a Python list is At(list, i).                                           *)
(***************************************************************************)
EXTENDS Integers, Sequences, FiniteSets, TLC

VARIABLES meshes, objects, active, file, log,
          mode, show_material_overlay, drawn, select, spaces

vars == <<meshes, objects, active, file, log,
          mode, show_material_overlay, drawn, select, spaces>>

\* bpy.context.mode, scene.show_material_overlay, the points in the viewport,
\* the selected vertices of the edit mesh and the 3D-view spaces of the screen
viewport == <<mode, show_material_overlay, drawn, select, spaces>>

\* a 3D-view space: the draw handlers added through it, and whether it
\* carries the attribute material_overlay_handler
Space(handlers, material_overlay_handler) ==
    [handlers |-> handlers, material_overlay_handler |-> material_overlay_handler]

\* a 3D-view space before any overlay update
NewSpace == Space(0, FALSE)

(***************************************************************************)
(* Bounds of the model.                                                    *)
(***************************************************************************)
MaxCoord == 1
MaxCalls == 2

\* the 3D views of the screen, and the draw handlers one of them may hold
MaxViews == 2
MaxHandlers == 3

Coords == (0 - MaxCoord) .. MaxCoord
Vec3 == {<<x, y, z>> : x \in Coords, y \in Coords, z \in Coords}

(***************************************************************************)
(* Python list helpers.                                                    *)
(***************************************************************************)
At(list, i) == list[i + 1]

Range(list) == {list[i] : i \in 1 .. Len(list)}

Map(F(_), list) == [i \in 1 .. Len(list) |-> F(list[i])]

\* list[:n]
Take(list, n) == SubSeq(list, 1, IF Len(list) < n THEN Len(list) ELSE n)

RECURSIVE Flatten(_)
Flatten(lists) ==
    IF lists = <<>> THEN <<>> ELSE Head(lists) \o Flatten(Tail(lists))

RECURSIVE Reverse(_)
Reverse(list) ==
    IF list = <<>> THEN <<>> ELSE Reverse(Tail(list)) \o <<Head(list)>>

Fill(n, v) == [i \in 1 .. n |-> v]

(***************************************************************************)
(* A Python dict as the sequence of its <<key, value>> items in insertion  *)
(* order: assigning an existing key replaces the value in place.           *)
(***************************************************************************)
DictKeys(d) == {d[i][1] : i \in 1 .. Len(d)}

DictSet(d, k, v) ==
    IF k \in DictKeys(d)
    THEN [i \in 1 .. Len(d) |-> IF d[i][1] = k THEN <<k, v>> ELSE d[i]]
    ELSE Append(d, <<k, v>>)

\* sorted(d.items()) for a dict with integer keys: ascending key order
RECURSIVE SortedItems(_)
SortedItems(d) ==
    IF d = <<>> THEN <<>>
    ELSE LET least == CHOOSE i \in 1 .. Len(d) :
                          \A j \in 1 .. Len(d) : d[i][1] <= d[j][1]
             rest == [i \in 1 .. Len(d) - 1 |->
                          IF i < least THEN d[i] ELSE d[i + 1]]
         IN  <<d[least]>> \o SortedItems(rest)

(***************************************************************************)
(* utils.flip_vector_orientation                                           *)
(***************************************************************************)
\* a quarter turn about x in place of the mirrored axis swap
flip_vector_orientation_turn(vector) == <<0 - vector[1], vector[3], 0 - vector[2]>>

\* the axis swap without the mirrored x
flip_vector_orientation_swap(vector) == <<vector[1], vector[3], vector[2]>>

flip_vector_orientation(vector) == <<0 - vector[1], vector[3], vector[2]>>

(***************************************************************************)
(* Host data: a mesh datablock and an object.                              *)
(***************************************************************************)
ZeroVec == <<0, 0, 0>>

NoLayer == [exists |-> FALSE, domain |-> "", data |-> <<>>]

Layer(domain, data) == [exists |-> TRUE, domain |-> domain, data |-> data]

\* matrix_world: a 3x3 part (rows) and a translation
Matrix(rows, t) == [rows |-> rows, t |-> t]

IdentityMatrix == Matrix(<<<<1, 0, 0>>, <<0, 1, 0>>, <<0, 0, 1>>>>, ZeroVec)

Dot(a, b) == a[1] * b[1] + a[2] * b[2] + a[3] * b[3]

\* matrix_world @ co
MatMul(m, v) ==
    <<Dot(m.rows[1], v) + m.t[1],
      Dot(m.rows[2], v) + m.t[2],
      Dot(m.rows[3], v) + m.t[3]>>

\* mesh.loops[i].vertex_index: the corners of the polygons, polygon after
\* polygon, each polygon's corners in its own order
LoopVertices(mesh) == Flatten(mesh.polygons)

Mesh(name, co, normal, polygons, uv, color, is_metal, is_glass) ==
    [name |-> name, co |-> co, normal |-> normal, polygons |-> polygons,
     uv |-> uv, color |-> color, is_metal |-> is_metal, is_glass |-> is_glass]

Object(name, type, data, matrix_world) ==
    [name |-> name, type |-> type, data |-> data, matrix_world |-> matrix_world,
     modifiers |-> <<>>]

(***************************************************************************)
(* The Python dict `data` of the export operator and the JSON document.    *)
(* A Python entry is missing, None or a dict {'type', 'buffer'}; a JSON    *)
(* member is absent, null or an object that may lack its "buffer" member.  *)
(***************************************************************************)
Keys ==
    {"Vertex_Position", "Vertex_Normal", "Vertex_Color", "Vertex_UV",
     "indices", "prim_center", "appear_pos", "is_metal", "is_glass"}

PyMissing == [kind |-> "missing", type |-> <<>>, buffer |-> <<>>]

PyNone == [kind |-> "None", type |-> <<>>, buffer |-> <<>>]

PyDict(type, buffer) == [kind |-> "dict", type |-> type, buffer |-> buffer]

JAbsent == [kind |-> "absent", has_buffer |-> FALSE, type |-> <<>>, buffer |-> <<>>]

JNull == [kind |-> "null", has_buffer |-> FALSE, type |-> <<>>, buffer |-> <<>>]

JObject(type, buffer) ==
    [kind |-> "object", has_buffer |-> TRUE, type |-> type, buffer |-> buffer]

\* an object without a "buffer" member
JNoBuffer(type) ==
    [kind |-> "object", has_buffer |-> FALSE, type |-> type, buffer |-> <<>>]

NoFile == [exists |-> FALSE, attributes |-> <<>>, members |-> [k \in Keys |-> JAbsent]]

Document(attributes, members) ==
    [exists |-> TRUE, attributes |-> attributes, members |-> members]

\* json.dump(data, f): None becomes null, a missing key is not written
JsonDump(data) ==
    Document(data.attributes,
             [k \in Keys |->
                 CASE data.entries[k].kind = "missing" -> JAbsent
                   [] data.entries[k].kind = "None" -> JNull
                   [] OTHER -> JObject(data.entries[k].type, data.entries[k].buffer)])

(***************************************************************************)
(* ExportTinyGladeJSON: the add_* methods, each from `data` to `data`.     *)
(***************************************************************************)
SetEntry(data, key, type, buffer) ==
    [data EXCEPT !.entries[key] = PyDict(type, buffer)]

AppendAttribute(data, key) ==
    [data EXCEPT !.attributes = Append(@, key)]

add_vertex_positions(obj, mesh, data) ==
    LET vertices == Map(LAMBDA co : MatMul(obj.matrix_world, co), mesh.co)
        vertices_oriented == Map(flip_vector_orientation, vertices)
    IN  AppendAttribute(
            SetEntry(data, "Vertex_Position", <<"float", 3>>, vertices_oriented),
            "Vertex_Position")

\* one normal for every corner of every polygon
add_vertex_normals_per_corner(mesh, data) ==
    LET vertex_normals ==
            Map(LAMBDA v : flip_vector_orientation(mesh.normal[v + 1]), LoopVertices(mesh))
    IN  AppendAttribute(
            SetEntry(data, "Vertex_Normal", <<"float", 3>>, vertex_normals),
            "Vertex_Normal")

add_vertex_normals(mesh, data) ==
    LET vertex_normals == Map(flip_vector_orientation, mesh.normal)
    IN  AppendAttribute(
            SetEntry(data, "Vertex_Normal", <<"float", 3>>, vertex_normals),
            "Vertex_Normal")

\* a placeholder written when the mesh has no colour attribute
add_vertex_colors_placeholder(mesh, data) ==
    IF mesh.color.exists
    THEN LET colors == Map(LAMBDA c : SubSeq(c, 1, Len(c) - 1), mesh.color.data)
         IN  AppendAttribute(
                 SetEntry(data, "Vertex_Color", <<"float", 3>>, colors),
                 "Vertex_Color")
    ELSE [data EXCEPT !.entries["Vertex_Color"] = PyNone]

\* list(loop.color)[:-1] for every element of the active colour attribute,
\* whatever its domain
add_vertex_colors(mesh, data) ==
    IF mesh.color.exists
    THEN LET colors == Map(LAMBDA c : SubSeq(c, 1, Len(c) - 1), mesh.color.data)
         IN  AppendAttribute(
                 SetEntry(data, "Vertex_Color", <<"float", 3>>, colors),
                 "Vertex_Color")
    ELSE data

\* faces.extend(poly.vertices) over mesh.polygons
FirstThreeOfEach_whole(mesh) == Flatten(mesh.polygons)

\* faces.extend(poly.vertices[:3]) over mesh.polygons
FirstThreeOfEach(mesh) ==
    Flatten(Map(LAMBDA poly : Take(poly, 3), mesh.polygons))

\* {index: uv_layer[i] for i, index in enumerate(faces)}
RECURSIVE UvMapFrom(_, _, _, _)
UvMapFrom(faces, uv_layer, i, d) ==
    IF i >= Len(faces) THEN d
    ELSE UvMapFrom(faces, uv_layer, i + 1, DictSet(d, At(faces, i), At(uv_layer, i)))

UvMap(faces, uv_layer) == UvMapFrom(faces, uv_layer, 0, <<>>)

\* for index, uv in uv_map.items(): if index not in seen_uv: seen_uv[index] = uv
RECURSIVE SeenFrom(_, _)
SeenFrom(items, seen) ==
    IF items = <<>> THEN seen
    ELSE SeenFrom(Tail(items),
                  IF Head(items)[1] \in DictKeys(seen) THEN seen
                  ELSE DictSet(seen, Head(items)[1], Head(items)[2]))

VertexUVBuffer(mesh) ==
    LET uv_layer == mesh.uv.data
        faces == FirstThreeOfEach(mesh)
        uv_map == UvMap(faces, uv_layer)
        seen_uv == SeenFrom(uv_map, <<>>)
    IN  Map(LAMBDA item : item[2], SortedItems(seen_uv))

add_vertex_UV(mesh, data) ==
    IF mesh.uv.exists
    THEN AppendAttribute(
             SetEntry(data, "Vertex_UV", <<"float", 2>>, VertexUVBuffer(mesh)),
             "Vertex_UV")
    ELSE data

add_is_metal(mesh, data) ==
    IF mesh.is_metal.exists
    THEN AppendAttribute(
             SetEntry(data, "is_metal", <<"int", 1>>, mesh.is_metal.data),
             "is_metal")
    ELSE data

add_is_glass(mesh, data) ==
    IF mesh.is_glass.exists
    THEN AppendAttribute(
             SetEntry(data, "is_glass", <<"int", 1>>, mesh.is_glass.data),
             "is_glass")
    ELSE data

\* the indices written counting from one
add_faces_indices_one_based(mesh, data) ==
    SetEntry(data, "indices", <<"int", 1>>,
             Map(LAMBDA index : index + 1, FirstThreeOfEach(mesh)))

\* the indices are read from mesh.polygons of the object's own mesh, not from
\* the triangulated copy; 'indices' is not appended to data['attributes']
add_faces_indices(mesh, data) ==
    SetEntry(data, "indices", <<"int", 1>>, FirstThreeOfEach(mesh))

\* bmesh.ops.triangulate on one face: a fan on its first corner
Triangulate(poly) ==
    [i \in 1 .. Len(poly) - 2 |-> <<poly[1], poly[i + 1], poly[i + 2]>>]

\* mesh.copy(), triangulated through a bmesh (lines 253 to 261)
TriangulatedCopy(mesh) ==
    [mesh EXCEPT !.name = "Mesh.001",
                 !.polygons = Flatten(Map(Triangulate, mesh.polygons))]

\* bpy.data.meshes.remove
RemoveMesh(datablocks, i) ==
    [j \in 1 .. Len(datablocks) - 1 |->
        IF j < i THEN datablocks[j] ELSE datablocks[j + 1]]

\* the triangulated copy left in bpy.data.meshes
add_faces_indices_meshes_kept(datablocks, i) ==
    Append(datablocks, TriangulatedCopy(datablocks[i]))

\* bpy.data.meshes over add_faces_indices: the copy is added (line 253) and
\* removed again (line 266)
add_faces_indices_meshes(datablocks, i) ==
    LET with_copy == Append(datablocks, TriangulatedCopy(datablocks[i]))
    IN  RemoveMesh(with_copy, Len(with_copy))

\* bpy.data.meshes over the add_* calls of execute
ExportMeshes(opts, datablocks, i) ==
    IF opts.include_faces_indices
    THEN add_faces_indices_meshes(datablocks, i)
    ELSE datablocks

\* data = {'attributes': [], 'indices': None}
EmptyData ==
    [attributes |-> <<>>,
     entries |-> [k \in Keys |-> IF k = "indices" THEN PyNone ELSE PyMissing]]

\* the colours added before the normals
ExportData_reordered(opts, obj, mesh) ==
    LET d1 == IF opts.include_vertex_position
              THEN add_vertex_positions(obj, mesh, EmptyData) ELSE EmptyData
        d2 == IF opts.include_vertex_color THEN add_vertex_colors(mesh, d1) ELSE d1
        d3 == IF opts.include_vertex_normal THEN add_vertex_normals(mesh, d2) ELSE d2
        d4 == IF opts.include_vertex_uv THEN add_vertex_UV(mesh, d3) ELSE d3
        d5 == IF opts.include_is_metal THEN add_is_metal(mesh, d4) ELSE d4
        d6 == IF opts.include_is_glass THEN add_is_glass(mesh, d5) ELSE d5
    IN  IF opts.include_faces_indices THEN add_faces_indices(mesh, d6) ELSE d6

ExportData(opts, obj, mesh) ==
    LET d1 == IF opts.include_vertex_position
              THEN add_vertex_positions(obj, mesh, EmptyData) ELSE EmptyData
        d2 == IF opts.include_vertex_normal THEN add_vertex_normals(mesh, d1) ELSE d1
        d3 == IF opts.include_vertex_color THEN add_vertex_colors(mesh, d2) ELSE d2
        d4 == IF opts.include_vertex_uv THEN add_vertex_UV(mesh, d3) ELSE d3
        d5 == IF opts.include_is_metal THEN add_is_metal(mesh, d4) ELSE d4
        d6 == IF opts.include_is_glass THEN add_is_glass(mesh, d5) ELSE d5
    IN  IF opts.include_faces_indices THEN add_faces_indices(mesh, d6) ELSE d6

Options ==
    [include_vertex_position : BOOLEAN, include_vertex_color : BOOLEAN,
     include_vertex_normal : BOOLEAN, include_faces_indices : BOOLEAN,
     include_vertex_uv : BOOLEAN, include_is_metal : BOOLEAN,
     include_is_glass : BOOLEAN]

\* the defaults of the seven BoolProperty declarations
DefaultOptions ==
    [include_vertex_position |-> TRUE, include_vertex_color |-> FALSE,
     include_vertex_normal |-> FALSE, include_faces_indices |-> TRUE,
     include_vertex_uv |-> FALSE, include_is_metal |-> FALSE,
     include_is_glass |-> FALSE]

Outcome(op, status, error, reports) ==
    [op |-> op, status |-> status, error |-> error, reports |-> reports]

\* context.object is None or obj.type != 'MESH'
NotAMesh == active = 0 \/ objects[active].type # "MESH"

\* the file opened for writing before the active object is checked
Export_open_first(opts) ==
    /\ Len(log) < MaxCalls
    /\ IF NotAMesh
       THEN /\ log' = Append(log, Outcome("export", "CANCELLED", "",
                                  <<<<"INFO", "Start Mesh Exportation">>,
                                    <<"ERROR", "Selected object is not a mesh">>>>))
            /\ file' = Document(<<>>, [k \in Keys |-> JAbsent])
            /\ meshes' = meshes
       ELSE /\ file' = JsonDump(ExportData(opts, objects[active],
                                           meshes[objects[active].data]))
            /\ meshes' = ExportMeshes(opts, meshes, objects[active].data)
            /\ log' = Append(log, Outcome("export", "FINISHED", "",
                                  <<<<"INFO", "Start Mesh Exportation">>,
                                    <<"INFO", "Exported data">>>>))
    /\ UNCHANGED <<objects, active, viewport>>

(***************************************************************************)
(* ExportTinyGladeJSON.execute, with the option properties as set by the   *)
(* user in the file dialog.                                                *)
(***************************************************************************)
Export(opts) ==
    /\ Len(log) < MaxCalls
    /\ IF NotAMesh
       THEN /\ log' = Append(log, Outcome("export", "CANCELLED", "",
                                  <<<<"INFO", "Start Mesh Exportation">>,
                                    <<"ERROR", "Selected object is not a mesh">>>>))
            /\ file' = file
            /\ meshes' = meshes
       ELSE /\ file' = JsonDump(ExportData(opts, objects[active],
                                           meshes[objects[active].data]))
            /\ meshes' = ExportMeshes(opts, meshes, objects[active].data)
            /\ log' = Append(log, Outcome("export", "FINISHED", "",
                                  <<<<"INFO", "Start Mesh Exportation">>,
                                    <<"INFO", "Exported data">>>>))
    /\ UNCHANGED <<objects, active, viewport>>

(***************************************************************************)
(* ImportTinyGladeJSON.execute                                             *)
(***************************************************************************)
VectorKeys == {"Vertex_Position", "Vertex_Normal", "prim_center", "appear_pos"}

\* the order in which execute reads the members (lines 36 to 45)
ReadOrder ==
    <<"Vertex_Position", "Vertex_Normal", "Vertex_Color", "Vertex_UV", "indices",
      "prim_center", "appear_pos", "is_metal", "is_glass">>

\* data.get(key, {}).get("buffer", []) for a member that is not null
Lookup(doc, key) ==
    IF doc.members[key].kind = "object" /\ doc.members[key].has_buffer
    THEN doc.members[key].buffer
    ELSE <<>>

\* the smallest i in 0 .. n-1 with Bad(i), or n when there is none
FirstBad(n, Bad(_)) ==
    IF \E i \in 0 .. n - 1 : Bad(i)
    THEN CHOOSE i \in 0 .. n - 1 : Bad(i) /\ \A j \in 0 .. i - 1 : ~Bad(j)
    ELSE n

\* data[key]["buffer"] in place of data.get(key, {}).get("buffer", [])
ReadError_subscript(doc, key) ==
    IF doc.members[key].kind # "object" THEN
        IF doc.members[key].kind = "null" THEN "TypeError" ELSE "KeyError"
    ELSE IF ~doc.members[key].has_buffer THEN "KeyError"
    ELSE ""

\* what reading one member raises: None has no .get; Vector() wants at least
\* two components and a 2D Vector has no .z
ReadError(doc, key) ==
    IF doc.members[key].kind = "null" THEN "AttributeError"
    ELSE IF key \in VectorKeys
         THEN LET buffer == Lookup(doc, key)
                  bad == FirstBad(Len(buffer), LAMBDA i : Len(At(buffer, i)) < 3)
              IN  IF bad = Len(buffer) THEN ""
                  ELSE IF Len(At(buffer, bad)) < 2 THEN "ValueError" ELSE "AttributeError"
         ELSE ""

ParseError(doc) ==
    LET bad == FirstBad(Len(ReadOrder), LAMBDA i : ReadError(doc, At(ReadOrder, i)) # "")
    IN  IF bad = Len(ReadOrder) THEN "" ELSE ReadError(doc, At(ReadOrder, bad))

\* [indices[i:i+3] for i in range(0, len(indices), 3)]
RECURSIVE Chunks3(_)
Chunks3(indices) ==
    IF indices = <<>> THEN <<>>
    ELSE <<Take(indices, 3)>>
         \o Chunks3(SubSeq(indices, Len(Take(indices, 3)) + 1, Len(indices)))

\* Mesh.flip_normals: every polygon keeps its first corner and reverses the rest
FlipPolygon(poly) ==
    IF poly = <<>> THEN <<>> ELSE <<Head(poly)>> \o Reverse(Tail(poly))

\* bpy.data.meshes.new(name)
NewMesh(name) == Mesh(name, <<>>, <<>>, <<>>, NoLayer, NoLayer, NoLayer, NoLayer)

\* mesh.from_pydata(vertices, [], faces): no index is validated; the vertex
\* normals are the host's own and not taken from the document
from_pydata(mesh, vertices, faces) ==
    [mesh EXCEPT !.co = vertices, !.normal = Fill(Len(vertices), ZeroVec),
                 !.polygons = faces]

flip_normals(mesh) == [mesh EXCEPT !.polygons = Map(FlipPolygon, mesh.polygons)]

\* a step of execute that may raise: the mesh as it is left, and the error
Step(mesh, error) == [mesh |-> mesh, error |-> error]

\* a CORNER colour attribute, filled corner by corner with the colour of the
\* corner's vertex
ImportColors_per_corner(mesh, vertex_colors) ==
    IF vertex_colors = <<>> THEN Step(mesh, "")
    ELSE LET loops == LoopVertices(mesh)
             n == Len(loops)
             bad == FirstBad(n, LAMBDA loop_idx :
                        \/ At(loops, loop_idx) >= Len(vertex_colors)
                        \/ Len(At(vertex_colors, At(loops, loop_idx))) < 3)
             data == [i \in 1 .. n |->
                        IF i - 1 < bad
                        THEN SubSeq(At(vertex_colors, loops[i]), 1, 3) \o <<1>>
                        ELSE <<0, 0, 0, 0>>]
         IN  Step([mesh EXCEPT !.color = Layer("CORNER", data)],
                  IF bad = n THEN "" ELSE "IndexError")

\* lines 66 to 75: a POINT colour attribute, filled vertex by vertex
ImportColors(mesh, vertex_colors) ==
    IF vertex_colors = <<>> THEN Step(mesh, "")
    ELSE LET n == Len(mesh.co)
             bad == FirstBad(n, LAMBDA v_index :
                        \/ v_index >= Len(vertex_colors)
                        \/ Len(At(vertex_colors, v_index)) < 3)
             data == [i \in 1 .. n |->
                        IF i - 1 < bad
                        THEN <<vertex_colors[i][1], vertex_colors[i][2],
                               vertex_colors[i][3], 1>>
                        ELSE <<0, 0, 0, 0>>]
         IN  Step([mesh EXCEPT !.color = Layer("POINT", data)],
                  IF bad = n THEN "" ELSE "IndexError")

\* a UV layer filled with entry i of the buffer on corner i
ImportUV_by_corner(mesh, vertex_UV) ==
    IF vertex_UV = <<>> THEN Step(mesh, "")
    ELSE LET n == Len(LoopVertices(mesh))
             bad == FirstBad(n, LAMBDA loop_idx : loop_idx >= Len(vertex_UV))
             data == [i \in 1 .. n |->
                        IF i - 1 < bad THEN vertex_UV[i] ELSE <<0, 0>>]
         IN  Step([mesh EXCEPT !.uv = Layer("CORNER", data)],
                  IF bad = n THEN "" ELSE "IndexError")

\* lines 76 to 86: a UV layer, filled corner by corner with the value of the
\* corner's vertex
ImportUV(mesh, vertex_UV) ==
    IF vertex_UV = <<>> THEN Step(mesh, "")
    ELSE LET loops == LoopVertices(mesh)
             n == Len(loops)
             bad == FirstBad(n, LAMBDA loop_idx : At(loops, loop_idx) >= Len(vertex_UV))
             data == [i \in 1 .. n |->
                        IF i - 1 < bad THEN At(vertex_UV, loops[i]) ELSE <<0, 0>>]
         IN  Step([mesh EXCEPT !.uv = Layer("CORNER", data)],
                  IF bad = n THEN "" ELSE "IndexError")

\* lines 90 to 98: an INT POINT attribute, filled by enumerate(buffer)
FlagLayer(mesh, buffer) ==
    Layer("POINT",
          [i \in 1 .. Len(mesh.co) |-> IF i <= Len(buffer) THEN buffer[i] ELSE 0])

FlagError(mesh, buffer) ==
    IF Len(buffer) > Len(mesh.co) THEN "IndexError" ELSE ""

ImportIsMetal(mesh, is_metal) ==
    IF is_metal = <<>> THEN Step(mesh, "")
    ELSE Step([mesh EXCEPT !.is_metal = FlagLayer(mesh, is_metal)],
              FlagError(mesh, is_metal))

ImportIsGlass(mesh, is_glass) ==
    IF is_glass = <<>> THEN Step(mesh, "")
    ELSE Step([mesh EXCEPT !.is_glass = FlagLayer(mesh, is_glass)],
              FlagError(mesh, is_glass))

\* a step runs only if no earlier step raised
Then(step, F(_)) == IF step.error # "" THEN step ELSE F(step.mesh)

\* lines 62 to 98 on the new mesh
BuildMesh(doc) ==
    LET vertex_positions == Map(flip_vector_orientation, Lookup(doc, "Vertex_Position"))
        faces == Chunks3(Lookup(doc, "indices"))
        geometry == flip_normals(
                        from_pydata(NewMesh("TinyGladeMesh"), vertex_positions, faces))
        s1 == ImportColors(geometry, Lookup(doc, "Vertex_Color"))
        s2 == Then(s1, LAMBDA m : ImportUV(m, Lookup(doc, "Vertex_UV")))
        s3 == Then(s2, LAMBDA m : ImportIsMetal(m, Lookup(doc, "is_metal")))
    IN  Then(s3, LAMBDA m : ImportIsGlass(m, Lookup(doc, "is_glass")))

\* lines 51 to 60: a vertex-only mesh and its object, when the buffer is not empty
PointMeshes(doc, key, name) ==
    LET points == Map(flip_vector_orientation, Lookup(doc, key))
    IN  IF points = <<>> THEN <<>>
        ELSE <<from_pydata(NewMesh(name), points, <<>>)>>

\* the mesh datablocks execute creates, in creation order; the main mesh is
\* created first (line 48) and filled last (line 62)
ImportedMeshes(doc) ==
    <<BuildMesh(doc).mesh>>
    \o PointMeshes(doc, "prim_center", "PrimCenterMesh")
    \o PointMeshes(doc, "appear_pos", "AppearPosMesh")

ObjectNameOf(mesh) ==
    CASE mesh.name = "PrimCenterMesh" -> "PrimCenterObject"
      [] mesh.name = "AppearPosMesh" -> "AppearPosObject"
      [] OTHER -> "objectName"

Import ==
    /\ Len(log) < MaxCalls
    /\ UNCHANGED <<active, file, viewport>>
    /\ IF ~file.exists
       THEN /\ log' = Append(log, Outcome("import", "EXCEPTION", "FileNotFoundError", <<>>))
            /\ UNCHANGED <<meshes, objects>>
       ELSE IF ParseError(file) # ""
       THEN /\ log' = Append(log, Outcome("import", "EXCEPTION", ParseError(file), <<>>))
            /\ UNCHANGED <<meshes, objects>>
       ELSE LET new == ImportedMeshes(file)
                error == BuildMesh(file).error
            IN  /\ meshes' = meshes \o new
                /\ objects' = objects \o
                       [i \in 1 .. Len(new) |->
                           Object(ObjectNameOf(new[i]), "MESH", Len(meshes) + i,
                                  IdentityMatrix)]
                /\ log' = Append(log, IF error = ""
                                       THEN Outcome("import", "FINISHED", "", <<>>)
                                       ELSE Outcome("import", "EXCEPTION", error, <<>>))

(***************************************************************************)
(* The scenes and files the operators are run on.  One aspect varies at a  *)
(* time: the geometry, the UV layer, the colour attribute, the material    *)
(* flags, the active object, or the file on disk.                          *)
(***************************************************************************)
Topology(n, polygons) == [n |-> n, polygons |-> polygons]

Empty == Topology(0, <<>>)
Point == Topology(1, <<>>)
Triangle == Topology(3, <<<<0, 1, 2>>>>)
TwoTriangles == Topology(4, <<<<0, 1, 2>>, <<2, 1, 3>>>>)
Quad == Topology(4, <<<<0, 1, 2, 3>>>>)
\* vertex 1 belongs to no polygon
TriangleAndLoose == Topology(4, <<<<0, 2, 3>>>>)

Pentagon == Topology(5, <<<<0, 1, 2, 3, 4>>>>)

\* a quad and a triangle on one of its edges
QuadAndTriangle == Topology(5, <<<<0, 1, 2, 3>>, <<3, 2, 4>>>>)

Topologies ==
    {Empty, Point, Triangle, TwoTriangles, Quad, TriangleAndLoose, Pentagon,
     QuadAndTriangle}

DefaultCo ==
    <<<<0 - 1, 0, 1>>, <<1, 0, 0>>, <<0, 1, 0 - 1>>, <<1, 0 - 1, 0>>, <<0, 0, 1>>>>

DefaultNormal == <<0, 0, 1>>

BaseMesh(t) ==
    Mesh("Mesh", SubSeq(DefaultCo, 1, t.n), Fill(t.n, DefaultNormal), t.polygons,
         NoLayer, NoLayer, NoLayer, NoLayer)

NumLoops(t) == Len(Flatten(t.polygons))

Lists(n, values) == [1 .. n -> values]

UVValues == {<<0, 0>>, <<1, 0>>}

ColorValues == {<<1, 0, 0, 1>>, <<0, 1, 0, 1>>}

Matrices ==
    {IdentityMatrix,
     Matrix(IdentityMatrix.rows, <<1, 0, 0 - 1>>),
     Matrix(<<<<2, 0, 0>>, <<0, 2, 0>>, <<0, 0, 2>>>>, ZeroVec),
     Matrix(<<<<0, 0 - 1, 0>>, <<1, 0, 0>>, <<0, 0, 1>>>>, ZeroVec)}

PositionMeshes == {[BaseMesh(Point) EXCEPT !.co = <<v>>] : v \in Vec3}

\* vertex normals are unit vectors
NormalValues ==
    {<<1, 0, 0>>, <<0 - 1, 0, 0>>, <<0, 1, 0>>, <<0, 0 - 1, 0>>, <<0, 0, 1>>, <<0, 0, 0 - 1>>}

NormalMeshes == {[BaseMesh(Point) EXCEPT !.normal = <<v>>] : v \in NormalValues}

UVMeshes ==
    UNION {{[BaseMesh(t) EXCEPT !.uv = Layer("CORNER", data)] :
                data \in Lists(NumLoops(t), UVValues)} :
           t \in {Triangle, TwoTriangles, Quad, TriangleAndLoose}}
    \cup {[BaseMesh(QuadAndTriangle) EXCEPT
               !.uv = Layer("CORNER", Fill(4, <<0, 0>>) \o data)] :
             data \in Lists(3, UVValues)}

ColorMeshes ==
    UNION {{[BaseMesh(t) EXCEPT !.color = Layer("POINT", data)] :
                data \in Lists(t.n, ColorValues)} :
           t \in {Empty, Point, Triangle}}
    \cup
    UNION {{[BaseMesh(t) EXCEPT !.color = Layer("CORNER", data)] :
                data \in Lists(NumLoops(t), ColorValues)} :
           t \in {Triangle, TriangleAndLoose}}

FlagLayers(n) == {NoLayer} \cup {Layer("POINT", data) : data \in Lists(n, {0, 1})}

FlagMeshes ==
    UNION {{[BaseMesh(t) EXCEPT !.is_metal = metal, !.is_glass = glass] :
                metal \in FlagLayers(t.n), glass \in FlagLayers(t.n)} :
           t \in {Empty, Point}}
    \cup {[BaseMesh(Triangle) EXCEPT !.is_metal = metal, !.is_glass = glass] :
             metal \in FlagLayers(3), glass \in {NoLayer, Layer("POINT", <<0, 1, 0>>)}}
    \cup {[BaseMesh(Triangle) EXCEPT !.is_metal = metal, !.is_glass = glass] :
             metal \in {NoLayer, Layer("POINT", <<1, 0, 1>>)}, glass \in FlagLayers(3)}

\* a triangle that carries every layer the export reads
FullMesh ==
    [BaseMesh(Triangle) EXCEPT
        !.uv = Layer("CORNER", <<<<0, 0>>, <<1, 0>>, <<0, 1>>>>),
        !.color = Layer("POINT", <<<<1, 0, 0, 1>>, <<0, 1, 0, 1>>, <<0, 0, 1, 1>>>>),
        !.is_metal = Layer("POINT", <<1, 0, 1>>),
        !.is_glass = Layer("POINT", <<0, 1, 0>>)]

Scene(ms, objs, act, f) == [meshes |-> ms, objects |-> objs, active |-> act, file |-> f]

MeshScene(mesh, matrix, f) ==
    Scene(<<mesh>>, <<Object("Object", "MESH", 1, matrix)>>, 1, f)

\* a complete, well-formed document of three vertices and one triangle
FullDocument ==
    Document(<<"Vertex_Position", "Vertex_Normal", "Vertex_Color", "Vertex_UV",
               "is_metal", "is_glass">>,
             [k \in Keys |->
                 CASE k = "Vertex_Position" ->
                          JObject(<<"float", 3>>, <<<<1, 0, 1>>, <<0 - 1, 0, 0>>, <<0, 0 - 1, 1>>>>)
                   [] k = "Vertex_Normal" ->
                          JObject(<<"float", 3>>, <<<<0, 1, 0>>, <<0, 1, 0>>, <<0, 1, 0>>>>)
                   [] k = "Vertex_Color" ->
                          JObject(<<"float", 3>>, <<<<1, 0, 0>>, <<0, 1, 0>>, <<0, 0, 1>>>>)
                   [] k = "Vertex_UV" ->
                          JObject(<<"float", 2>>, <<<<0, 0>>, <<1, 0>>, <<0, 1>>>>)
                   [] k = "indices" -> JObject(<<"int", 1>>, <<0, 1, 2>>)
                   [] k = "prim_center" -> JObject(<<"float", 3>>, <<<<0, 0, 0>>>>)
                   [] k = "appear_pos" -> JObject(<<"float", 3>>, <<<<0, 1, 0>>>>)
                   [] k = "is_metal" -> JObject(<<"int", 1>>, <<1, 0, 1>>)
                   [] OTHER -> JObject(<<"int", 1>>, <<0, 1, 0>>)])

\* the document with the members in `gone` removed, or left without "buffer"
Strip(doc, gone, keep_object) ==
    [doc EXCEPT !.members =
        [k \in Keys |->
            IF k \in gone
            THEN IF keep_object THEN JNoBuffer(doc.members[k].type) ELSE JAbsent
            ELSE doc.members[k]]]

StrippedDocuments ==
    {Strip(FullDocument, gone, FALSE) : gone \in SUBSET Keys}
    \cup {Strip(FullDocument, {k}, TRUE) : k \in Keys}
    \cup {Strip(FullDocument, Keys, TRUE)}

WithBuffer(doc, key, buffer) == [doc EXCEPT !.members[key].buffer = buffer]

\* {"attributes":[],"indices":{"buffer":[]}}
EmptyDocument ==
    Document(<<>>, [k \in Keys |->
                       IF k = "indices" THEN JObject(<<>>, <<>>) ELSE JAbsent])

MalformedDocuments ==
    {WithBuffer(FullDocument, "indices", <<0, 1, 3>>),
     WithBuffer(Strip(FullDocument, {"Vertex_UV"}, FALSE), "indices", <<0, 1, 3>>),
     WithBuffer(Strip(FullDocument, {"Vertex_UV"}, FALSE), "indices", <<0, 1, 2, 2, 1>>),
     WithBuffer(FullDocument, "Vertex_Color", <<<<1, 0, 0>>>>),
     WithBuffer(FullDocument, "Vertex_UV", <<<<0, 0>>, <<1, 0>>>>),
     WithBuffer(FullDocument, "is_glass", <<0, 1, 0, 1>>),
     WithBuffer(FullDocument, "Vertex_Position",
                <<<<1, 0, 1, 1>>, <<0 - 1, 0, 0>>, <<0, 0 - 1, 1>>>>),
     WithBuffer(FullDocument, "Vertex_Position",
                <<<<1, 0>>, <<0 - 1, 0, 0>>, <<0, 0 - 1, 1>>>>),
     WithBuffer(FullDocument, "Vertex_Normal",
                <<<<0, 1, 0, 0>>, <<0, 1, 0>>, <<0, 1, 0>>>>),
     WithBuffer(FullDocument, "appear_pos", <<<<0>>>>)}

\* a well-formed document of four vertices and two triangles on a shared edge
TwoTrianglesDocument ==
    Document(<<"Vertex_Position", "Vertex_Color", "Vertex_UV">>,
             [k \in Keys |->
                 CASE k = "Vertex_Position" ->
                          JObject(<<"float", 3>>,
                                  <<<<1, 0, 1>>, <<0 - 1, 0, 0>>, <<0, 0 - 1, 1>>, <<0, 1, 1>>>>)
                   [] k = "Vertex_Color" ->
                          JObject(<<"float", 3>>,
                                  <<<<1, 0, 0>>, <<0, 1, 0>>, <<0, 0, 1>>, <<1, 1, 0>>>>)
                   [] k = "Vertex_UV" ->
                          JObject(<<"float", 2>>, <<<<0, 0>>, <<1, 0>>, <<0, 1>>, <<1, 1>>>>)
                   [] k = "indices" -> JObject(<<"int", 1>>, <<0, 1, 2, 2, 1, 3>>)
                   [] OTHER -> JAbsent])

FilesOnDisk ==
    StrippedDocuments \cup MalformedDocuments \cup {EmptyDocument, TwoTrianglesDocument}

Scenes ==
    {MeshScene(mesh, IdentityMatrix, NoFile) :
        mesh \in {BaseMesh(t) : t \in Topologies} \cup {FullMesh}
                 \cup PositionMeshes \cup NormalMeshes
                 \cup UVMeshes \cup ColorMeshes \cup FlagMeshes}
    \cup {MeshScene(BaseMesh(t), matrix, NoFile) :
             t \in {Point, Triangle}, matrix \in Matrices}
    \cup {MeshScene(BaseMesh(Triangle), IdentityMatrix, f) :
             f \in MalformedDocuments \cup {EmptyDocument, FullDocument}}
    \cup {Scene(<<>>, <<>>, 0, f) : f \in {NoFile} \cup FilesOnDisk}
    \cup {Scene(<<>>, <<Object("Camera", "CAMERA", 0, IdentityMatrix)>>, 1, f) :
             f \in {NoFile, EmptyDocument}}

Init ==
    /\ \E scene \in Scenes :
          /\ meshes = scene.meshes
          /\ objects = scene.objects
          /\ active = scene.active
          /\ file = scene.file
    /\ log = <<>>
    /\ mode = "OBJECT"
    /\ show_material_overlay = FALSE
    /\ drawn = <<>>
    /\ select = {}
    /\ spaces = <<NewSpace>>

ExportCall == \E opts \in Options : Export(opts)

Next == ExportCall \/ Import

Spec == Init /\ [][Next]_vars

(***************************************************************************)
(* The viewport overlay (overlay.py).                                      *)
(***************************************************************************)
\* bm.verts.layers.int.get(name): the per-vertex integer layer of that name;
\* the meshes here carry no integer layer but is_metal and is_glass
IntLayer(mesh, name) ==
    CASE name = "is_metal" -> mesh.is_metal
      [] name = "is_glass" -> mesh.is_glass
      [] OTHER -> NoLayer

\* layer and vert[layer] == 1
LayerIsOne(layer, index) == layer.exists /\ layer.data[index + 1] = 1

Indices(n) == [i \in 1 .. n |-> i - 1]

\* the points of one batch: the vertex drawn, its position and its colour
PointsOf(obj, mesh, metal_layer, glass_layer) ==
    LET flagged == SelectSeq(Indices(Len(mesh.co)),
                             LAMBDA v : \/ LayerIsOne(metal_layer, v)
                                        \/ LayerIsOne(glass_layer, v))
    IN  [i \in 1 .. Len(flagged) |->
            [vert |-> flagged[i],
             pos |-> MatMul(obj.matrix_world, mesh.co[flagged[i] + 1]),
             color |-> <<IF LayerIsOne(metal_layer, flagged[i]) THEN 1 ELSE 0,
                         0,
                         IF LayerIsOne(glass_layer, flagged[i]) THEN 1 ELSE 0,
                         1>>]]

\* what one call of draw_material_overlay puts in the viewport
DrawnPoints ==
    IF ~show_material_overlay \/ mode # "EDIT_MESH" THEN <<>>
    ELSE IF NotAMesh THEN <<>>
    ELSE LET obj == objects[active]
             mesh == meshes[obj.data]
             metal_layer == IntLayer(mesh, "is_metal_part")
             glass_layer == IntLayer(mesh, "is_glass")
         IN  IF ~metal_layer.exists /\ ~glass_layer.exists THEN <<>>
             ELSE PointsOf(obj, mesh, metal_layer, glass_layer)

\* the draw handler, called by the host on a redraw of the 3D view
draw_material_overlay ==
    /\ Len(log) < MaxCalls
    /\ drawn' = DrawnPoints
    /\ log' = Append(log, Outcome("draw", IF DrawnPoints = <<>> THEN "None" ELSE "FINISHED",
                                  "", <<>>))
    /\ UNCHANGED <<meshes, objects, active, file, mode, show_material_overlay, select, spaces>>

\* the user enters edit mode on a mesh object, which becomes the edit object
EnterEditMode ==
    /\ mode = "OBJECT"
    /\ \E i \in 1 .. Len(objects) :
          /\ objects[i].type = "MESH"
          /\ active' = i
    /\ mode' = "EDIT_MESH"
    /\ UNCHANGED <<meshes, objects, file, log, show_material_overlay, drawn, select, spaces>>

\* the user leaves edit mode
ExitEditMode ==
    /\ mode = "EDIT_MESH"
    /\ mode' = "OBJECT"
    /\ UNCHANGED <<meshes, objects, active, file, log, show_material_overlay, drawn, select, spaces>>

OverlayScenes ==
    {MeshScene(mesh, matrix, f) :
        mesh \in FlagMeshes \cup {FullMesh},
        matrix \in {IdentityMatrix, Matrix(IdentityMatrix.rows, <<1, 0, 0 - 1>>)},
        f \in {NoFile, FullDocument}}
    \cup {Scene(<<>>, <<>>, 0, FullDocument),
          Scene(<<>>, <<Object("Camera", "CAMERA", 0, IdentityMatrix)>>, 1, FullDocument)}

InitOverlay ==
    /\ \E scene \in OverlayScenes :
          /\ meshes = scene.meshes
          /\ objects = scene.objects
          /\ active = scene.active
          /\ file = scene.file
    /\ log = <<>>
    /\ mode \in {"OBJECT", "EDIT_MESH"}
    /\ mode = "EDIT_MESH" => ~NotAMesh
    /\ show_material_overlay \in BOOLEAN
    /\ drawn = <<>>
    /\ select = {}
    /\ spaces = <<NewSpace>>

NextOverlay == draw_material_overlay \/ EnterEditMode \/ ExitEditMode \/ Import

SpecOverlay == InitOverlay /\ [][NextOverlay]_vars

(***************************************************************************)
(* The toggle operators (operators.py).  The operators read and write the  *)
(* attribute through mesh.attributes while the mesh is in edit mode, where *)
(* the edit data lives in the BMesh: the host either exposes the attribute *)
(* array of the mesh (readable) or an empty one, and then data[vert.index] *)
(* raises IndexError.                                                      *)
(***************************************************************************)
SetIntLayer(mesh, name, layer) ==
    CASE name = "is_metal" -> [mesh EXCEPT !.is_metal = layer]
      [] name = "is_glass" -> [mesh EXCEPT !.is_glass = layer]

\* mesh.attributes.get(name), or mesh.attributes.new(name, 'INT', 'POINT')
GetOrCreate(mesh, name) ==
    IF IntLayer(mesh, name).exists THEN IntLayer(mesh, name)
    ELSE Layer("POINT", Fill(Len(mesh.co), 0))

\* 1 if current_value == 0 else 0, for the selected vertices
Toggled(layer, selected) ==
    [layer EXCEPT !.data = [k \in 1 .. Len(layer.data) |->
                               IF k - 1 \in selected
                               THEN (IF layer.data[k] = 0 THEN 1 ELSE 0)
                               ELSE layer.data[k]]]

ToggleAttribute(op, name, message, readable) ==
    /\ Len(log) < MaxCalls
    /\ IF NotAMesh
       THEN /\ log' = Append(log, Outcome(op, "CANCELLED", "",
                                  <<<<"ERROR", "Selected object is not a mesh">>>>))
            /\ meshes' = meshes
       ELSE IF mode # "EDIT_MESH"
       THEN /\ log' = Append(log, Outcome(op, "CANCELLED", "",
                                  <<<<"ERROR", "Must be in edit mode">>>>))
            /\ meshes' = meshes
       ELSE LET mesh == meshes[objects[active].data]
                attr == GetOrCreate(mesh, name)
            IN  IF ~readable /\ select # {}
                THEN /\ meshes' = [meshes EXCEPT ![objects[active].data] =
                                      SetIntLayer(mesh, name, attr)]
                     /\ log' = Append(log, Outcome(op, "EXCEPTION", "IndexError", <<>>))
                ELSE /\ meshes' = [meshes EXCEPT ![objects[active].data] =
                                      SetIntLayer(mesh, name, Toggled(attr, select))]
                     /\ log' = Append(log, Outcome(op, "FINISHED", "",
                                          <<<<"INFO", message>>>>))
    /\ UNCHANGED <<objects, active, file, viewport>>

ToggleMetalAttribute ==
    \E readable \in BOOLEAN :
        ToggleAttribute("toggle_metal_attribute", "is_metal",
                        "Toggled metal attribute on selected vertices", readable)

ToggleGlassAttribute ==
    \E readable \in BOOLEAN :
        ToggleAttribute("toggle_glass_attribute", "is_glass",
                        "Toggled glass attribute on selected vertices", readable)

\* the user selects vertices of the mesh in edit mode
SelectVertices ==
    /\ mode = "EDIT_MESH"
    /\ \E selected \in SUBSET Range(Indices(Len(meshes[objects[active].data].co))) :
          /\ selected # select
          /\ select' = selected
    /\ UNCHANGED <<meshes, objects, active, file, log, mode, show_material_overlay,
                   drawn, spaces>>

ToggleScenes ==
    {MeshScene(mesh, IdentityMatrix, NoFile) : mesh \in FlagMeshes}
    \cup {Scene(<<>>, <<>>, 0, NoFile),
          Scene(<<>>, <<Object("Camera", "CAMERA", 0, IdentityMatrix)>>, 1, NoFile)}

InitToggle ==
    /\ \E scene \in ToggleScenes :
          /\ meshes = scene.meshes
          /\ objects = scene.objects
          /\ active = scene.active
          /\ file = scene.file
    /\ log = <<>>
    /\ mode \in {"OBJECT", "EDIT_MESH"}
    /\ mode = "EDIT_MESH" => ~NotAMesh
    /\ show_material_overlay = FALSE
    /\ drawn = <<>>
    /\ select = {}
    /\ spaces = <<NewSpace>>

NextToggle ==
    ToggleMetalAttribute \/ ToggleGlassAttribute \/ SelectVertices
        \/ EnterEditMode \/ ExitEditMode

SpecToggle == InitToggle /\ [][NextToggle]_vars

(***************************************************************************)
(* The draw handlers of the overlay (overlay.py, __init__.py).  Whether a  *)
(* space keeps the attribute material_overlay_handler that the update      *)
(* callback assigns is the host's choice: the assignment on the space      *)
(* either takes, or raises inside the try (after draw_handler_add has      *)
(* run) and leaves no attribute.                                           *)
(***************************************************************************)
\* lines 26 to 30: not hasattr -> draw_handler_add, then the assignment
AddHandler(space, kept) ==
    IF ~space.material_overlay_handler
    THEN Space(space.handlers + 1, kept)
    ELSE space

\* lines 32 to 37: hasattr -> draw_handler_remove, del
RemoveHandler(space) ==
    IF space.material_overlay_handler
    THEN Space(space.handlers - 1, FALSE)
    ELSE space

Unregistered == \E i \in 1 .. Len(log) : log[i].op = "unregister"

\* scene.show_material_overlay = value, and the update callback it runs
update_show_overlay_scene(value, kept) ==
    /\ ~Unregistered
    /\ \A a \in 1 .. Len(spaces) : spaces[a].handlers < MaxHandlers
    /\ show_material_overlay' = value
    /\ spaces' = [a \in 1 .. Len(spaces) |->
                     IF value THEN AddHandler(spaces[a], kept[a])
                     ELSE RemoveHandler(spaces[a])]
    /\ UNCHANGED <<meshes, objects, active, file, log, mode, drawn, select>>

SetShowOverlay ==
    \E value \in BOOLEAN, kept \in [1 .. Len(spaces) -> BOOLEAN] :
        update_show_overlay_scene(value, kept)

\* unregister(): the handlers the spaces still name are removed
unregister ==
    /\ ~Unregistered
    /\ Len(log) < MaxCalls
    /\ spaces' = [a \in 1 .. Len(spaces) |-> RemoveHandler(spaces[a])]
    /\ log' = Append(log, Outcome("unregister", "None", "", <<>>))
    /\ UNCHANGED <<meshes, objects, active, file, mode, show_material_overlay,
                   drawn, select>>

\* after register(): the property is off and no space has a handler
InitHandlers ==
    /\ \E scene \in {MeshScene(mesh, IdentityMatrix, NoFile) :
                        mesh \in {BaseMesh(Triangle), FullMesh}} :
          /\ meshes = scene.meshes
          /\ objects = scene.objects
          /\ active = scene.active
          /\ file = scene.file
    /\ log = <<>>
    /\ mode \in {"OBJECT", "EDIT_MESH"}
    /\ show_material_overlay = FALSE
    /\ drawn = <<>>
    /\ select = {}
    /\ spaces \in {Fill(n, NewSpace) : n \in 0 .. MaxViews}

NextHandlers == SetShowOverlay \/ unregister \/ EnterEditMode \/ ExitEditMode

SpecHandlers == InitHandlers /\ [][NextHandlers]_vars

(***************************************************************************)
(* pre_export_pipeline (utils.py).  The evaluated mesh is the copy with    *)
(* the EdgeSplit modifier applied; which edges it splits depends on the    *)
(* angles between the faces, so both outcomes are taken: no edge split, or *)
(* every polygon on vertices of its own.                                   *)
(***************************************************************************)
ZeroColor == <<0, 0, 0, 0>>

\* the value a new FLOAT_COLOR attribute is filled with: zeros, or the
\* host's default colour (white)
FillColors == {ZeroColor, <<1, 1, 1, 1>>}

\* the vertices on no polygon, in ascending order
LooseVertices(mesh) ==
    SelectSeq(Indices(Len(mesh.co)), LAMBDA v : v \notin Range(LoopVertices(mesh)))

RECURSIVE Renumbered(_, _)
Renumbered(polygons, start) ==
    IF polygons = <<>> THEN <<>>
    ELSE <<[k \in 1 .. Len(Head(polygons)) |-> start + k - 1]>>
         \o Renumbered(Tail(polygons), start + Len(Head(polygons)))

PointData(layer, order) ==
    IF layer.exists /\ layer.domain = "POINT"
    THEN [layer EXCEPT !.data = [k \in 1 .. Len(order) |-> layer.data[order[k] + 1]]]
    ELSE layer

\* every corner on a vertex of its own
SplitAll(mesh) ==
    LET order == LoopVertices(mesh) \o LooseVertices(mesh)
    IN  [mesh EXCEPT !.co = [k \in 1 .. Len(order) |-> mesh.co[order[k] + 1]],
                     !.normal = [k \in 1 .. Len(order) |-> mesh.normal[order[k] + 1]],
                     !.polygons = Renumbered(mesh.polygons, 0),
                     !.color = PointData(mesh.color, order),
                     !.is_metal = PointData(mesh.is_metal, order),
                     !.is_glass = PointData(mesh.is_glass, order)]

\* lines 76 to 83: the loops in order; a vertex colour is set only while all
\* four of its components are 0.0
RECURSIVE FirstSeenFrom(_, _, _, _)
FirstSeenFrom(loops, corner_colors, loop_idx, vertex_colors) ==
    IF loop_idx >= Len(loops) THEN vertex_colors
    ELSE LET v_idx == At(loops, loop_idx)
         IN  FirstSeenFrom(loops, corner_colors, loop_idx + 1,
                 IF At(vertex_colors, v_idx) = ZeroColor
                 THEN [vertex_colors EXCEPT ![v_idx + 1] = At(corner_colors, loop_idx)]
                 ELSE vertex_colors)

\* lines 66 to 83: the attribute "<name>_vertex" of the evaluated mesh
VertexColorLayer(eval_mesh, fill) ==
    IF eval_mesh.color.exists /\ eval_mesh.color.domain = "CORNER"
    THEN Layer("POINT", FirstSeenFrom(LoopVertices(eval_mesh), eval_mesh.color.data, 0,
                                      Fill(Len(eval_mesh.co), fill)))
    ELSE NoLayer

\* the place, in the loops of the mesh, of every loop of the triangulated mesh
RECURSIVE TriangulatedLoops(_, _)
TriangulatedLoops(polygons, start) ==
    IF polygons = <<>> THEN <<>>
    ELSE Flatten([i \in 1 .. Len(Head(polygons)) - 2 |->
                     <<start + 1, start + i + 1, start + i + 2>>])
         \o TriangulatedLoops(Tail(polygons), start + Len(Head(polygons)))

CornerData(layer, loops) ==
    IF layer.exists /\ layer.domain = "CORNER"
    THEN [layer EXCEPT !.data = [k \in 1 .. Len(loops) |-> layer.data[loops[k]]]]
    ELSE layer

\* lines 86 to 93: the evaluated mesh, triangulated, as the new datablock
\* "<obj.name>_tg_export" with all its layers
ExportMesh(eval_mesh, color_vertex) ==
    LET loops == TriangulatedLoops(eval_mesh.polygons, 0)
    IN  [name |-> "_tg_export",
         co |-> eval_mesh.co,
         normal |-> eval_mesh.normal,
         polygons |-> Flatten(Map(Triangulate, eval_mesh.polygons)),
         uv |-> CornerData(eval_mesh.uv, loops),
         color |-> CornerData(eval_mesh.color, loops),
         is_metal |-> eval_mesh.is_metal,
         is_glass |-> eval_mesh.is_glass,
         color_vertex |-> color_vertex]

\* bpy.data.objects.remove
RemoveObject(collection, i) ==
    [j \in 1 .. Len(collection) - 1 |->
        IF j < i THEN collection[j] ELSE collection[j + 1]]

\* pre_export_pipeline(context, obj), obj the object of that number or None (0)
pre_export_pipeline(obj, fill, split) ==
    /\ Len(log) < MaxCalls
    /\ IF obj = 0 \/ objects[obj].type # "MESH"
       THEN /\ log' = Append(log, Outcome("pre_export_pipeline", "EXCEPTION",
                                          "ValueError", <<>>))
            /\ UNCHANGED <<meshes, objects>>
       ELSE LET data_copy == [meshes[objects[obj].data] EXCEPT !.name = "Mesh.001"]
                temp_obj == [objects[obj] EXCEPT !.data = Len(meshes) + 1,
                                                 !.modifiers = Append(@, "EdgeSplit")]
                linked == Append(objects, temp_obj)
                eval_mesh == IF split THEN SplitAll(data_copy) ELSE data_copy
                temp_mesh == ExportMesh(eval_mesh, VertexColorLayer(eval_mesh, fill))
            IN  /\ meshes' = meshes \o <<data_copy, temp_mesh>>
                /\ objects' = RemoveObject(linked, Len(linked))
                /\ log' = Append(log, Outcome("pre_export_pipeline", "FINISHED", "",
                                     <<<<"loop_to_vertex_map", LoopVertices(temp_mesh)>>>>))
    /\ UNCHANGED <<active, file, viewport>>

PipelineColors == {ZeroColor, <<1, 0, 0, 1>>}

PipelineMeshes ==
    {[BaseMesh(TwoTriangles) EXCEPT !.color = Layer("CORNER", data)] :
        data \in Lists(6, PipelineColors)}
    \cup {[BaseMesh(Quad) EXCEPT !.color = Layer("CORNER", data)] :
             data \in Lists(4, PipelineColors)}
    \cup {[BaseMesh(Triangle) EXCEPT !.color = Layer("POINT", data)] :
             data \in Lists(3, PipelineColors)}
    \cup {BaseMesh(t) : t \in Topologies} \cup {FullMesh}

PipelineScenes ==
    {MeshScene(mesh, IdentityMatrix, NoFile) : mesh \in PipelineMeshes}
    \cup {Scene(<<>>, <<>>, 0, NoFile),
          Scene(<<>>, <<Object("Camera", "CAMERA", 0, IdentityMatrix)>>, 1, NoFile)}

InitPipeline ==
    /\ \E scene \in PipelineScenes :
          /\ meshes = scene.meshes
          /\ objects = scene.objects
          /\ active = scene.active
          /\ file = scene.file
    /\ log = <<>>
    /\ mode = "OBJECT"
    /\ show_material_overlay = FALSE
    /\ drawn = <<>>
    /\ select = {}
    /\ spaces = <<NewSpace>>

PipelineCall ==
    \E obj \in 0 .. Len(objects), fill \in FillColors, split \in BOOLEAN :
        pre_export_pipeline(obj, fill, split)

NextPipeline == PipelineCall

SpecPipeline == InitPipeline /\ [][NextPipeline]_vars

(***************************************************************************)
(* Vocabulary of the properties.                                           *)
(***************************************************************************)
Last(list) == list[Len(list)]

\* the mesh of the active object, which the export reads
SourceMesh == meshes[objects[active].data]

\* some export call has written the file, and `file` is what the latest wrote
Written == \E i \in 1 .. Len(log) : log[i].op = "export" /\ log[i].status = "FINISHED"

\* the last call was an import
Imported == log # <<>> /\ Last(log).op = "import"

\* the last call was an import that got as far as creating its mesh
\* (line 48): it finished, or raised while filling the mesh
Created == Imported /\ (Last(log).status = "FINISHED" \/ Last(log).error = "IndexError")

HasBuffer(doc, key) == doc.members[key].kind = "object" /\ doc.members[key].has_buffer

NumPointMeshes(doc) ==
    (IF Lookup(doc, "prim_center") = <<>> THEN 0 ELSE 1)
    + (IF Lookup(doc, "appear_pos") = <<>> THEN 0 ELSE 1)

\* the "TinyGladeMesh" the last import created
ImportedMesh == meshes[Len(meshes) - NumPointMeshes(file)]

\* an export wrote the file from the active mesh and the next call imported it
RoundTrip ==
    /\ Len(log) = 2
    /\ log[1].op = "export" /\ log[1].status = "FINISHED"
    /\ log[2].op = "import"

\* this step is one call of the given operator
Call(op) == Len(log') = Len(log) + 1 /\ Last(log').op = op

AttributeNames ==
    <<"Vertex_Position", "Vertex_Normal", "Vertex_Color", "Vertex_UV", "is_metal", "is_glass">>

ReferencedVertices(mesh) == Range(LoopVertices(mesh))

\* the first corner, in polygon order and then corner order, on vertex v
FirstCornerOf(mesh, v) ==
    CHOOSE i \in 1 .. Len(LoopVertices(mesh)) :
        /\ LoopVertices(mesh)[i] = v
        /\ \A j \in 1 .. i - 1 : LoopVertices(mesh)[j] # v

\* the place of vertex v in a buffer that holds the vertices of `present` in
\* ascending index order
RankIn(present, v) == Cardinality({u \in present : u < v})

AllTriangles(mesh) == \A i \in 1 .. Len(mesh.polygons) : Len(mesh.polygons[i]) = 3

(***************************************************************************)
(* C1: export-direction UV collapsing is first-seen-wins: the UV written   *)
(* for a vertex is the UV of the first corner on that vertex, in polygon   *)
(* order and then corner order.  Stated for triangle meshes, where corner  *)
(* i of the UV layer is entry i of the flattened face list.                *)
(***************************************************************************)
C1_FirstSeenWins ==
    (Written /\ HasBuffer(file, "Vertex_UV") /\ AllTriangles(SourceMesh)) =>
        \A v \in ReferencedVertices(SourceMesh) :
            At(file.members["Vertex_UV"].buffer, RankIn(ReferencedVertices(SourceMesh), v))
                = SourceMesh.uv.data[FirstCornerOf(SourceMesh, v)]

(***************************************************************************)
(* C2: round trip of positions: a mesh exported with positions and face    *)
(* indices under the identity world matrix and imported again has the same *)
(* vertex positions in the same order.                                     *)
(***************************************************************************)
C2_PositionRoundTrip ==
    (/\ RoundTrip
     /\ HasBuffer(file, "Vertex_Position")
     /\ HasBuffer(file, "indices")
     /\ objects[active].matrix_world = IdentityMatrix) =>
        /\ Created
        /\ ImportedMesh.name = "TinyGladeMesh"
        /\ ImportedMesh.co = SourceMesh.co

C2_Witness ==
    /\ RoundTrip
    /\ Last(log).status = "FINISHED"
    /\ objects[active].matrix_world = IdentityMatrix
    /\ SourceMesh.co = <<<<1, 0 - 1, 0>>>>
    /\ file.members["Vertex_Position"].buffer = <<<<0 - 1, 0, 0 - 1>>>>
    /\ ImportedMesh.co = <<<<1, 0 - 1, 0>>>>

\* the one formula of C3: (x, y, z) -> (-x, z, y)
AxisFormula(v) == <<0 - v[1], v[3], v[2]>>

(***************************************************************************)
(* C3: export and import use the same formula (x,y,z) -> (-x,z,y): every   *)
(* written Vertex_Position entry is the image of the world-space position, *)
(* every written Vertex_Normal entry the image of the vertex normal, and   *)
(* every vertex position an import builds the image of the document's      *)
(* Vertex_Position entry.                                                  *)
(***************************************************************************)
C3_SameFormula ==
    /\ (Written /\ HasBuffer(file, "Vertex_Position")) =>
           /\ Len(file.members["Vertex_Position"].buffer) = Len(SourceMesh.co)
           /\ \A i \in 1 .. Len(SourceMesh.co) :
                  file.members["Vertex_Position"].buffer[i]
                      = AxisFormula(MatMul(objects[active].matrix_world, SourceMesh.co[i]))
    /\ (Written /\ HasBuffer(file, "Vertex_Normal")) =>
           /\ Len(file.members["Vertex_Normal"].buffer) = Len(SourceMesh.normal)
           /\ \A i \in 1 .. Len(SourceMesh.normal) :
                  file.members["Vertex_Normal"].buffer[i] = AxisFormula(SourceMesh.normal[i])
    /\ Created =>
           /\ Len(ImportedMesh.co) = Len(Lookup(file, "Vertex_Position"))
           /\ \A i \in 1 .. Len(ImportedMesh.co) :
                  ImportedMesh.co[i] = AxisFormula(Lookup(file, "Vertex_Position")[i])

C3_Witness ==
    /\ RoundTrip
    /\ Last(log).status = "FINISHED"
    /\ objects[active].matrix_world # IdentityMatrix
    /\ HasBuffer(file, "Vertex_Normal")
    /\ file.members["Vertex_Position"].buffer = <<<<2, 2, 0>>, <<0 - 2, 0, 0>>, <<0, 0 - 2, 2>>>>
    /\ ImportedMesh.co = <<<<0 - 2, 0, 2>>, <<2, 0, 0>>, <<0, 2, 0 - 2>>>>

\* the members that hold one entry per vertex
PerVertexKeys ==
    {"Vertex_Position", "Vertex_Normal", "Vertex_Color", "Vertex_UV", "is_metal", "is_glass"}

\* a document that a complete well-formed document becomes when members, or
\* their "buffer", are removed: no member is null, the per-vertex buffers
\* that are left agree in length, and the indices that are left are triples
\* below that length
MissingOnly(doc) ==
    /\ doc.exists
    /\ \A k \in Keys : doc.members[k].kind # "null"
    /\ \A k \in VectorKeys : \A i \in 1 .. Len(Lookup(doc, k)) : Len(Lookup(doc, k)[i]) = 3
    /\ \A i \in 1 .. Len(Lookup(doc, "Vertex_Color")) : Len(Lookup(doc, "Vertex_Color")[i]) = 3
    /\ \A j, k \in {key \in PerVertexKeys : HasBuffer(doc, key)} :
           Len(Lookup(doc, j)) = Len(Lookup(doc, k))
    /\ Len(Lookup(doc, "indices")) % 3 = 0
    /\ \A k \in {key \in PerVertexKeys : HasBuffer(doc, key)} :
           \A i \in 1 .. Len(Lookup(doc, "indices")) :
               Lookup(doc, "indices")[i] < Len(Lookup(doc, k))

C5_IndexBoundCheck ==
    (/\ Imported
     /\ file.exists
     /\ \E i \in 1 .. Len(Lookup(file, "indices")) :
            Lookup(file, "indices")[i] >= Len(Lookup(file, "Vertex_Position"))) =>
        Last(log).status # "FINISHED"

(***************************************************************************)
(* C6: a failing import is atomic: it leaves the mesh datablocks and the   *)
(* objects of the collection as they were before the call.                 *)
(***************************************************************************)
C6_ImportAtomic ==
    [][(Call("import") /\ Last(log').status # "FINISHED") =>
           (meshes' = meshes /\ objects' = objects)]_vars

NumErrors(reports) == Cardinality({i \in 1 .. Len(reports) : reports[i][1] = "ERROR"})

(***************************************************************************)
(* C7: export with no active object, or with one that is not a mesh,       *)
(* reports one error, returns CANCELLED and leaves the file as it was,     *)
(* whatever the options.                                                   *)
(***************************************************************************)
C7_NonMeshExport ==
    [][(Call("export") /\ NotAMesh) =>
           /\ Last(log').status = "CANCELLED"
           /\ NumErrors(Last(log').reports) = 1
           /\ file' = file]_vars

C7_Witness ==
    /\ log # <<>>
    /\ Last(log).op = "export"
    /\ Last(log).status = "CANCELLED"
    /\ active = 1
    /\ objects[active].type = "CAMERA"
    /\ file = EmptyDocument

\* the latest export wrote the file under these options
WrittenWith(opts) ==
    Written /\ file = JsonDump(ExportData(opts, objects[active], SourceMesh))

(***************************************************************************)
(* C8: a mesh that carries is_metal (resp. is_glass), exported with        *)
(* include_is_metal (resp. include_is_glass) and imported again, yields a  *)
(* mesh whose is_metal (resp. is_glass) attribute exists and holds the     *)
(* same value at every vertex.                                             *)
(***************************************************************************)
C8_FlagsPreserved ==
    \A opts \in Options :
        (RoundTrip /\ WrittenWith(opts)) =>
            /\ (opts.include_is_metal /\ SourceMesh.is_metal.exists) =>
                   /\ Last(log).status = "FINISHED"
                   /\ ImportedMesh.is_metal.exists
                   /\ ImportedMesh.is_metal.data = SourceMesh.is_metal.data
            /\ (opts.include_is_glass /\ SourceMesh.is_glass.exists) =>
                   /\ Last(log).status = "FINISHED"
                   /\ ImportedMesh.is_glass.exists
                   /\ ImportedMesh.is_glass.data = SourceMesh.is_glass.data

IndexOf(list, x) == CHOOSE i \in 1 .. Len(list) : list[i] = x

\* the names of `list` are names of `order`, each at most once, in that order
InOrder(list, order) ==
    /\ Range(list) \subseteq Range(order)
    /\ \A i, j \in 1 .. Len(list) :
           i < j => IndexOf(order, list[i]) < IndexOf(order, list[j])

\* the members a written document holds as objects
ExportedKeys(doc) == {k \in Keys : doc.members[k].kind = "object"}

(***************************************************************************)
(* C9 as stated: the attributes list of a written document names what was  *)
(* exported in the order Vertex_Position, Vertex_Normal, Vertex_Color,     *)
(* Vertex_UV, is_metal, is_glass, then indices last, each at most once.    *)
(***************************************************************************)
C9_IndicesListedLast ==
    Written =>
        /\ InOrder(file.attributes, AttributeNames \o <<"indices">>)
        /\ Range(file.attributes) = ExportedKeys(file)

(***************************************************************************)
(* C9 as amended: the attributes list of a written document names the      *)
(* exported per-vertex attributes in the order Vertex_Position,            *)
(* Vertex_Normal, Vertex_Color, Vertex_UV, is_metal, is_glass, each at     *)
(* most once; indices is never listed, also when the index buffer is       *)
(* written.                                                                *)
(***************************************************************************)
C9_AttributesInCallOrder ==
    Written =>
        /\ InOrder(file.attributes, AttributeNames)
        /\ Range(file.attributes) = ExportedKeys(file) \ {"indices"}

C9_Witness ==
    /\ Written
    /\ file.attributes = AttributeNames
    /\ file.members["indices"].kind = "object"
    /\ file.members["indices"].buffer = <<0, 1, 2>>

\* the option that asks for the member
OptionOf(opts, key) ==
    CASE key = "Vertex_Position" -> opts.include_vertex_position
      [] key = "Vertex_Normal" -> opts.include_vertex_normal
      [] key = "Vertex_Color" -> opts.include_vertex_color
      [] key = "Vertex_UV" -> opts.include_vertex_uv
      [] key = "is_metal" -> opts.include_is_metal
      [] key = "is_glass" -> opts.include_is_glass
      [] OTHER -> opts.include_faces_indices

\* the mesh has what the member is read from
HasLayer(mesh, key) ==
    CASE key = "Vertex_Color" -> mesh.color.exists
      [] key = "Vertex_UV" -> mesh.uv.exists
      [] key = "is_metal" -> mesh.is_metal.exists
      [] key = "is_glass" -> mesh.is_glass.exists
      [] OTHER -> TRUE

(***************************************************************************)
(* C10: in a written document indices is always a member, null when the    *)
(* face indices were not requested; each of the six attributes is a member *)
(* exactly when attributes lists it, and one that was not exported (option *)
(* off, or no such layer on the mesh) is left out, never written as null.  *)
(***************************************************************************)
C10_KeyPresence ==
    \A opts \in Options :
        (Written /\ Last(log).op = "export" /\ WrittenWith(opts)) =>
            /\ file.members["indices"].kind =
                   (IF opts.include_faces_indices THEN "object" ELSE "null")
            /\ \A k \in Range(AttributeNames) :
                   /\ file.members[k].kind \in {"absent", "object"}
                   /\ file.members[k].kind = "object" <=> k \in Range(file.attributes)
                   /\ file.members[k].kind = "object" <=>
                          (OptionOf(opts, k) /\ HasLayer(SourceMesh, k))

C10_Witness ==
    /\ Written
    /\ Last(log).op = "export"
    /\ file.members["indices"].kind = "null"
    /\ SourceMesh.is_metal.exists
    /\ ~SourceMesh.color.exists
    /\ file.attributes = <<"Vertex_Position", "is_metal">>
    /\ file.members["is_glass"].kind = "absent"
    /\ file.members["Vertex_Color"].kind = "absent"

\* the values a per-corner layer holds on the corners of vertex v
CornerValuesOn(mesh, data, v) ==
    {data[i] : i \in {j \in 1 .. Len(data) :
                         j <= Len(LoopVertices(mesh)) /\ LoopVertices(mesh)[j] = v}}

\* entry k of the buffer is a value the layer holds for vertex k
ValueOfVertex(mesh, layer, values, buffer) ==
    \A v \in 0 .. Len(mesh.co) - 1 :
        IF layer.domain = "POINT"
        THEN buffer[v + 1] = values[v + 1]
        ELSE v \in ReferencedVertices(mesh) =>
                 buffer[v + 1] \in CornerValuesOn(mesh, values, v)

(***************************************************************************)
(* C11: a Vertex_Color or Vertex_UV buffer of a written document holds one *)
(* entry per vertex of the mesh (as many as Vertex_Position when that is   *)
(* written), and entry k is the value of vertex k, also for a colour layer *)
(* stored per corner.                                                      *)
(***************************************************************************)
C11_CollapsedPerVertex ==
    Written =>
        /\ HasBuffer(file, "Vertex_Color") =>
               /\ Len(Lookup(file, "Vertex_Color")) = Len(SourceMesh.co)
               /\ ValueOfVertex(SourceMesh, SourceMesh.color,
                                Map(LAMBDA c : SubSeq(c, 1, 3), SourceMesh.color.data),
                                Lookup(file, "Vertex_Color"))
        /\ HasBuffer(file, "Vertex_UV") =>
               /\ Len(Lookup(file, "Vertex_UV")) = Len(SourceMesh.co)
               /\ ValueOfVertex(SourceMesh, SourceMesh.uv, SourceMesh.uv.data,
                                Lookup(file, "Vertex_UV"))

IndicesWritten == Written /\ file.members["indices"].kind = "object"

(***************************************************************************)
(* C12: in every document written with the face indices, the length of     *)
(* indices.buffer is a multiple of 3, whatever the polygons of the mesh:   *)
(* three entries for every polygon.                                        *)
(***************************************************************************)
C12_TriangleCount ==
    IndicesWritten =>
        /\ Len(Lookup(file, "indices")) % 3 = 0
        /\ Len(Lookup(file, "indices")) = 3 * Len(SourceMesh.polygons)

C12_Witness ==
    /\ IndicesWritten
    /\ SourceMesh.polygons = <<<<0, 1, 2, 3, 4>>>>
    /\ Lookup(file, "indices") = <<0, 1, 2>>

RECURSIVE SumOf(_)
SumOf(list) == IF list = <<>> THEN 0 ELSE Head(list) + SumOf(Tail(list))

(***************************************************************************)
(* C13: the written indices are the triangles of the triangulated mesh: a  *)
(* polygon of n vertices gives n - 2 triples, and every vertex of every    *)
(* polygon of the mesh occurs in indices.buffer.                           *)
(***************************************************************************)
C13_TrianglesCoverPolygons ==
    IndicesWritten =>
        /\ Len(Lookup(file, "indices")) =
               3 * SumOf(Map(LAMBDA poly : Len(poly) - 2, SourceMesh.polygons))
        /\ ReferencedVertices(SourceMesh) \subseteq Range(Lookup(file, "indices"))

(***************************************************************************)
(* C14: in every document written with positions and face indices, every   *)
(* value of indices.buffer is at least 0 and below the number of           *)
(* Vertex_Position entries.                                                *)
(***************************************************************************)
C14_IndexRange ==
    (IndicesWritten /\ HasBuffer(file, "Vertex_Position")) =>
        \A i \in 1 .. Len(Lookup(file, "indices")) :
            /\ Lookup(file, "indices")[i] >= 0
            /\ Lookup(file, "indices")[i] < Len(Lookup(file, "Vertex_Position"))

C14_Witness ==
    /\ IndicesWritten
    /\ Len(Lookup(file, "Vertex_Position")) = 4
    /\ Lookup(file, "indices") = <<0, 1, 2, 2, 1, 3>>

(***************************************************************************)
(* C15: in every written document the buffers of Vertex_Position,          *)
(* Vertex_Normal, is_metal and is_glass that are present have one length,  *)
(* the number of vertices of the exported mesh.                            *)
(***************************************************************************)
C15_PerVertexLengths ==
    Written =>
        \A k \in {"Vertex_Position", "Vertex_Normal", "is_metal", "is_glass"} :
            HasBuffer(file, k) => Len(Lookup(file, k)) = Len(SourceMesh.co)

C15_Witness ==
    /\ Written
    /\ \A k \in {"Vertex_Position", "Vertex_Normal", "is_metal", "is_glass"} :
           HasBuffer(file, k) /\ Len(Lookup(file, k)) = 3

(***************************************************************************)
(* C16: after the import of a document with a non-empty Vertex_UV buffer,  *)
(* every corner of every polygon of the new mesh holds the buffer's entry  *)
(* of the corner's vertex, so the corners of one vertex hold one UV.       *)
(***************************************************************************)
C16_UVFanOut ==
    (Imported /\ Last(log).status = "FINISHED" /\ Lookup(file, "Vertex_UV") # <<>>) =>
        /\ ImportedMesh.uv.exists
        /\ Len(ImportedMesh.uv.data) = Len(LoopVertices(ImportedMesh))
        /\ \A i \in 1 .. Len(LoopVertices(ImportedMesh)) :
               ImportedMesh.uv.data[i] =
                   At(Lookup(file, "Vertex_UV"), LoopVertices(ImportedMesh)[i])

C16_Witness ==
    /\ Imported
    /\ Last(log).status = "FINISHED"
    /\ ImportedMesh.polygons = <<<<0, 2, 1>>, <<2, 3, 1>>>>
    /\ ImportedMesh.uv.data =
           <<<<0, 0>>, <<0, 1>>, <<1, 0>>, <<0, 1>>, <<1, 1>>, <<1, 0>>>>

(***************************************************************************)
(* C17: after the import of a document with a non-empty Vertex_Color       *)
(* buffer, the new mesh has a colour attribute on the POINT domain whose   *)
(* value at vertex i is the first three components of the buffer's entry   *)
(* i with alpha 1; the indices play no part.                               *)
(***************************************************************************)
C17_ColorsByVertexIndex ==
    (Imported /\ Last(log).status = "FINISHED" /\ Lookup(file, "Vertex_Color") # <<>>) =>
        /\ ImportedMesh.color.exists
        /\ ImportedMesh.color.domain = "POINT"
        /\ Len(ImportedMesh.color.data) = Len(ImportedMesh.co)
        /\ \A i \in 1 .. Len(ImportedMesh.co) :
               ImportedMesh.color.data[i] =
                   SubSeq(Lookup(file, "Vertex_Color")[i], 1, 3) \o <<1>>

C17_Witness ==
    /\ Imported
    /\ Last(log).status = "FINISHED"
    /\ ImportedMesh.polygons = <<<<0, 2, 1>>, <<2, 3, 1>>>>
    /\ ImportedMesh.color.data =
           <<<<1, 0, 0, 1>>, <<0, 1, 0, 1>>, <<0, 0, 1, 1>>, <<1, 1, 0, 1>>>>

(***************************************************************************)
(* C18: the import of a document in which an entry of Vertex_Position,     *)
(* Vertex_Normal, prim_center or appear_pos does not have exactly three    *)
(* components fails: four components are not cut down to three, and two    *)
(* components give no vertex.                                              *)
(***************************************************************************)
C18_ArityRejected ==
    (/\ Imported
     /\ file.exists
     /\ \E k \in VectorKeys : \E i \in 1 .. Len(Lookup(file, k)) :
            Len(Lookup(file, k)[i]) # 3) =>
        Last(log).status # "FINISHED"

(***************************************************************************)
(* C19: an export call, FINISHED or CANCELLED and whatever its options,    *)
(* leaves the meshes (vertices, polygons, attributes), the set of mesh     *)
(* datablocks, the objects and the active object as they were: the         *)
(* triangulated copy of add_faces_indices is gone when the call returns.   *)
(***************************************************************************)
C19_ExportChangesNothing ==
    [][Call("export") =>
           (meshes' = meshes /\ objects' = objects /\ active' = active)]_vars

C19_Witness ==
    /\ Len(log) = 2
    /\ \A i \in 1 .. 2 : log[i].op = "export" /\ log[i].status = "FINISHED"
    /\ IndicesWritten
    /\ Len(meshes) = 1
    /\ meshes[1].polygons = <<<<0, 1, 2, 3>>>>
    /\ Lookup(file, "indices") = <<0, 1, 2>>

\* the flag of a vertex in the attribute that import and the toggle operators write
Flagged(mesh, name, v) == LayerIsOne(IntLayer(mesh, name), v)

(***************************************************************************)
(* C20: with the overlay shown and a mesh in edit mode, a call of          *)
(* draw_material_overlay draws one point for exactly the vertices whose    *)
(* is_metal or is_glass flag is 1, red 1 iff metal and blue 1 iff glass;   *)
(* with the overlay off, or outside edit mode, it draws nothing.           *)
(***************************************************************************)
C20_OverlayHighlightsFlags ==
    [][Call("draw") =>
           IF show_material_overlay /\ mode = "EDIT_MESH" /\ ~NotAMesh
           THEN /\ {drawn'[i].vert : i \in 1 .. Len(drawn')} =
                       {v \in 0 .. Len(SourceMesh.co) - 1 :
                           \/ Flagged(SourceMesh, "is_metal", v)
                           \/ Flagged(SourceMesh, "is_glass", v)}
                /\ \A i, j \in 1 .. Len(drawn') : drawn'[i].vert = drawn'[j].vert => i = j
                /\ \A i \in 1 .. Len(drawn') :
                       /\ drawn'[i].color[1] = 1 <=>
                              Flagged(SourceMesh, "is_metal", drawn'[i].vert)
                       /\ drawn'[i].color[3] = 1 <=>
                              Flagged(SourceMesh, "is_glass", drawn'[i].vert)
           ELSE drawn' = <<>>]_vars

(***************************************************************************)
(* C21: every document the export writes can be imported: whatever the     *)
(* mesh and the seven options, the import of the written file returns      *)
(* FINISHED.                                                               *)
(***************************************************************************)
C21_ExportedIsImportable ==
    RoundTrip => Last(log).status = "FINISHED"

(***************************************************************************)
(* C22: each UV the export writes for a vertex is the UV of a corner of    *)
(* that vertex, also for polygons of more than three vertices: entry i of  *)
(* the flattened poly.vertices[:3] list is the vertex of loop i.           *)
(***************************************************************************)
C22_CornerVertexAlignment ==
    (Written /\ HasBuffer(file, "Vertex_UV")) =>
        /\ \A i \in 1 .. Len(FirstThreeOfEach(SourceMesh)) :
               FirstThreeOfEach(SourceMesh)[i] = LoopVertices(SourceMesh)[i]
        /\ \A v \in Range(FirstThreeOfEach(SourceMesh)) :
               Lookup(file, "Vertex_UV")[RankIn(Range(FirstThreeOfEach(SourceMesh)), v) + 1]
                   \in CornerValuesOn(SourceMesh, SourceMesh.uv.data, v)

\* the last call was pre_export_pipeline and it returned its mesh, the
\* newest datablock
Returned == log # <<>> /\ Last(log).op = "pre_export_pipeline" /\ Last(log).status = "FINISHED"

TempMesh == Last(meshes)

(***************************************************************************)
(* C23: for a CORNER colour attribute of the evaluated mesh, the POINT     *)
(* attribute "<name>_vertex" that pre_export_pipeline adds holds, for      *)
(* every vertex on some loop, the colour of the first loop on that vertex, *)
(* whatever that colour is; later loops never replace it.                  *)
(***************************************************************************)
C23_FirstSeenColour ==
    (Returned /\ TempMesh.color.exists /\ TempMesh.color.domain = "CORNER") =>
        /\ TempMesh.color_vertex.exists
        /\ TempMesh.color_vertex.domain = "POINT"
        /\ \A v \in ReferencedVertices(TempMesh) :
               TempMesh.color_vertex.data[v + 1] =
                   TempMesh.color.data[FirstCornerOf(TempMesh, v)]

(***************************************************************************)
(* C24: a call of pre_export_pipeline that returns leaves the objects of   *)
(* the scene and every mesh that existed unchanged, and adds one mesh      *)
(* datablock, the returned one; a call that raises ValueError creates      *)
(* nothing.                                                                *)
(***************************************************************************)
C24_PipelineCleansUp ==
    [][Call("pre_export_pipeline") =>
           IF Last(log').status = "FINISHED"
           THEN /\ objects' = objects
                /\ SubSeq(meshes', 1, Len(meshes)) = meshes
                /\ Len(meshes') = Len(meshes) + 1
           ELSE meshes' = meshes /\ objects' = objects]_vars

\* the flag of a vertex: the value of the attribute, 0 while the mesh has no
\* such attribute
FlagOf(layer, v) == IF layer.exists THEN layer.data[v + 1] ELSE 0

Flipped(before, after, v) == FlagOf(after, v) = 1 - FlagOf(before, v)

Kept(before, after, v) == FlagOf(after, v) = FlagOf(before, v)

\* the effect of a toggle operator on the attribute it toggles and on the other
ToggleEffect(op, toggled, other) ==
    Call(op) =>
        IF NotAMesh \/ mode # "EDIT_MESH"
        THEN Last(log').status = "CANCELLED" /\ meshes' = meshes
        ELSE /\ Last(log').status = "FINISHED"
             /\ \A v \in Range(Indices(Len(SourceMesh.co))) :
                   /\ IF v \in select
                      THEN Flipped(IntLayer(SourceMesh, toggled), IntLayer(SourceMesh', toggled), v)
                      ELSE Kept(IntLayer(SourceMesh, toggled), IntLayer(SourceMesh', toggled), v)
                   /\ FlagOf(IntLayer(SourceMesh', toggled), v) \in {0, 1}
             /\ IntLayer(SourceMesh', other) = IntLayer(SourceMesh, other)

(***************************************************************************)
(* C25: a toggle operator on a mesh in edit mode finishes, flips the flag  *)
(* it toggles (0 to 1, 1 to 0) on exactly the selected vertices, keeps it  *)
(* on the others and in {0,1}, and leaves the other flag alone; on no      *)
(* mesh, or outside edit mode, it is cancelled and changes nothing.        *)
(***************************************************************************)
C25_ToggleFlipsSelection ==
    [][/\ ToggleEffect("toggle_metal_attribute", "is_metal", "is_glass")
       /\ ToggleEffect("toggle_glass_attribute", "is_glass", "is_metal")]_vars

(***************************************************************************)
(* C26: whatever the changes of show_material_overlay so far, every        *)
(* 3D-view space has at most one overlay draw handler, has one exactly     *)
(* when show_material_overlay is true, and has none after unregister().    *)
(***************************************************************************)
C26_OneHandlerWhenShown ==
    \A a \in 1 .. Len(spaces) :
        /\ spaces[a].handlers <= 1
        /\ IF Unregistered
           THEN spaces[a].handlers = 0
           ELSE spaces[a].handlers = 1 <=> show_material_overlay

====
